---- MODULE Spec2Model ----
(***************************************************************************)
(* Model of the retrieval engine of the AI portfolio assistant:            *)
(*   backend/app/services/rag_service.py  (RAGService)                     *)
(*   backend/app/api/v1/endpoints/chat.py (process_chat_message)           *)
(*   backend/app/main.py                  (lifespan)                       *)
(*                                                                         *)
(* Two specifications are defined.                                         *)
(*   Spec       the process: the startup sequence of lifespan (load the    *)
(*              documents, build the two vector stores, yield) followed by *)
(*              chat requests, each a sequence of the steps of             *)
(*              process_chat_message.                                      *)
(*   RouterSpec the pure text classification of RAGService.route_query,    *)
(*              applied to every outcome of the language-model call drawn  *)
(*              from a bounded set of response strings.                    *)
(***************************************************************************)
EXTENDS Integers, Sequences, FiniteSets, TLC

(* ------------------------------ bounds -------------------------------- *)

\* Number of chat requests that may be in flight.
NumRequests == 2

\* Largest number of documents one acquisition source returns.
MaxDocs == 2

\* Largest number of text fragments a model response is assembled from.
MaxFrags == 2

(* --------------------------- value domains ---------------------------- *)

\* Python's None.
Null == [none |-> TRUE]

PERSONAL == "personal_info"

PROJECT == "project_info"

\* No value returned yet.
Pending == [pending |-> TRUE]

\* The closed set of the two domain labels route_query returns.
DomainLabels == {PERSONAL, PROJECT}

\* The answer strings process_chat_message returns itself.
NO_KB_ANSWER == "Knowledge base is not available."

APOLOGY_ANSWER == "Sorry, I encountered an error. Please try again."

\* Stands for response['message']['content'] of the answer-generation call.
MODEL_ANSWER == "<model answer>"

(* ------------------- strings as sequences of characters --------------- *)

\* str.lower() on the characters the responses are made of.
LowerChar(c) ==
  CASE c = "P" -> "p" [] c = "E" -> "e" [] c = "R" -> "r" [] c = "S" -> "s"
    [] c = "O" -> "o" [] c = "N" -> "n" [] c = "A" -> "a" [] c = "L" -> "l"
    [] c = "I" -> "i" [] c = "F" -> "f" [] c = "J" -> "j" [] c = "C" -> "c"
    [] c = "T" -> "t" [] OTHER -> c

Lower(s) == [i \in 1..Len(s) |-> LowerChar(s[i])]

IsSpace(c) == c \in {" ", "\n", "\t"}

RECURSIVE LStrip(_)
LStrip(s) == IF s # << >> /\ IsSpace(Head(s)) THEN LStrip(Tail(s)) ELSE s

RECURSIVE RStrip(_)
RStrip(s) ==
  IF s # << >> /\ IsSpace(s[Len(s)]) THEN RStrip(SubSeq(s, 1, Len(s) - 1)) ELSE s

\* str.strip()
Strip(s) == RStrip(LStrip(s))

\* Python's `sub in s` on strings.
Contains(s, sub) ==
  \E i \in 1..(Len(s) - Len(sub) + 1) : SubSeq(s, i, i + Len(sub) - 1) = sub

PersonalInfoText ==
  <<"p", "e", "r", "s", "o", "n", "a", "l", "_", "i", "n", "f", "o">>

ProjectInfoText ==
  <<"p", "r", "o", "j", "e", "c", "t", "_", "i", "n", "f", "o">>

(* ------------------ outcomes of the language-model call --------------- *)

\* Text fragments the bounded responses are concatenated from.
Fragments ==
  { PersonalInfoText,
    <<"P", "R", "O", "J", "E", "C", "T", "_", "I", "N", "F", "O">>,
    <<"P", "e", "r", "s", "o", "n", "a", "l", "_", "I", "n", "f", "o">>,
    <<"p", "r", "o", "j", "e", "c", "t", "_", "i", "n", "f">>,
    <<"o">>,
    <<"p", "r", "o", "j", "e", "c", "t", " ", "i", "n", "f", "o">>,
    <<" ">>,
    <<"\n">> }

RECURSIVE Texts(_)
Texts(n) ==
  IF n = 0 THEN { << >> }
  ELSE Texts(n - 1) \cup { t \o f : t \in Texts(n - 1), f \in Fragments }

\* ollama.chat either raises (model unreachable), returns a response whose
\* ['message']['content'] cannot be read, or returns a response with content.
Unreachable == [kind |-> "raise"]

Unreadable == [kind |-> "malformed"]

Content(t) == [kind |-> "content", text |-> t]

LLMOutcomes == {Unreachable, Unreadable} \cup { Content(t) : t \in Texts(MaxFrags) }

\* The outcomes the requests of Spec draw from: both failures and every
\* response of at most one fragment, plus one response naming both labels.
RequestOutcomes ==
  {Unreachable, Unreadable}
    \cup { Content(t) : t \in Texts(1) }
    \cup { Content(ProjectInfoText \o <<" ">> \o PersonalInfoText) }

(* ------------------------ RAGService.route_query ---------------------- *)

\* Mutant: the two substring tests in the opposite order.
route_query_project_first(outcome) ==
  IF outcome.kind # "content" THEN PERSONAL
  ELSE LET category == Lower(Strip(outcome.text)) IN
       IF Contains(category, ProjectInfoText) THEN PROJECT
       ELSE PERSONAL

\* Mutant: the except clause re-raises instead of defaulting.
route_query_reraise(outcome) ==
  IF outcome.kind # "content" THEN "raise"
  ELSE LET category == Lower(Strip(outcome.text)) IN
       IF Contains(category, PersonalInfoText) THEN PERSONAL
       ELSE IF Contains(category, ProjectInfoText) THEN PROJECT
       ELSE PERSONAL

\* The value route_query returns for an outcome of its ollama.chat call.
route_query(outcome) ==
  IF outcome.kind # "content" THEN PERSONAL
  ELSE LET category == Lower(Strip(outcome.text)) IN
       IF Contains(category, PersonalInfoText) THEN PERSONAL
       ELSE IF Contains(category, ProjectInfoText) THEN PROJECT
       ELSE PERSONAL

(* ------------------------------- state -------------------------------- *)

VARIABLES
  lifespan_pc,            \* position of main.lifespan
  personal_documents,     \* lifespan's local list personal_documents
  project_documents,      \* lifespan's local list project_documents
  personal_vector_store,  \* rag_service_instance.personal_vector_store
  projects_vector_store,  \* rag_service_instance.projects_vector_store
  build_failed,           \* domain whose _create_vector_store call raised
  split_calls,            \* per domain: calls of text_splitter.split_documents
  embed_calls,            \* per domain: calls of FAISS.from_documents
  pc,                     \* per request: position in process_chat_message
  category,               \* per request: local variable category
  classify_failed,        \* per request: route_query ran its except clause
  retriever,              \* per request: local variable retriever
  relevant_docs,          \* per request: local variable relevant_docs
  answer,                 \* per request: ChatResponse.answer returned
  exc,                    \* per request: step whose exception the endpoint caught
  history,                \* per request: stages passed so far
  router_in,              \* RouterSpec: outcome of the ollama.chat call
  router_out,             \* RouterSpec: value route_query returned
  dispatch_label,         \* DispatchSpec: argument category of get_retriever
  dispatch_out            \* DispatchSpec: value get_retriever returned

startup_vars ==
  <<lifespan_pc, personal_documents, project_documents, build_failed,
    split_calls, embed_calls>>

store_vars == <<personal_vector_store, projects_vector_store>>

request_vars ==
  <<pc, category, classify_failed, retriever, relevant_docs, answer, exc, history>>

router_vars == <<router_in, router_out>>

dispatch_vars == <<dispatch_label, dispatch_out>>

vars == <<startup_vars, store_vars, request_vars, router_vars, dispatch_vars>>

Requests == 1..NumRequests

(* ----------------------------- documents ------------------------------ *)

\* A document loaded from the Google Drive folder (PyMuPDFLoader / TextLoader).
GDriveDoc == [source |-> "gdrive"]

\* GitHubLoader.load_repo_data tags the repository named SELF_REPO_NAME "self"
\* and every other public repository "github_project".
SelfDoc == [source |-> "self"]

ProjectDoc == [source |-> "github_project"]

IsSelf(doc) == doc.source = "self"

IsNotSelf(doc) == doc.source # "self"

\* The lists load_repo_data can return: repository names are unique, so at
\* most one document is tagged "self".
RepoLists ==
  { l \in UNION { [1..n -> {SelfDoc, ProjectDoc}] : n \in 0..MaxDocs } :
      Cardinality({ i \in DOMAIN l : IsSelf(l[i]) }) <= 1 }

(* ------------------ RAGService._create_vector_store ------------------- *)

\* Mutant: the `if not documents` early return is missing, so an empty list
\* is split and embedded into an empty store.
create_vector_store_no_empty_check(documents, stdout_ok, embedder_up) ==
  IF ~stdout_ok
    THEN [raised |-> TRUE, ret |-> Null, split |-> 1, embed |-> 0]
  ELSE IF embedder_up
    THEN [raised |-> FALSE, ret |-> [chunks |-> documents], split |-> 1, embed |-> 1]
    ELSE [raised |-> TRUE, ret |-> Null, split |-> 1, embed |-> 1]

\* Outcome of _create_vector_store(documents): the value returned or the
\* exception raised, with the number of chunker and embedder calls made.  An
\* empty list returns None at once.  Otherwise the documents are split, the
\* number of chunks is printed (the print raises when stdout fails, and the
\* embedder is then never called), and FAISS.from_documents raises when the
\* embedding model cannot be reached.  Every modelled document is shorter
\* than chunk_size, so it is one chunk.
create_vector_store(documents, stdout_ok, embedder_up) ==
  IF documents = << >>
    THEN [raised |-> FALSE, ret |-> Null, split |-> 0, embed |-> 0]
  ELSE IF ~stdout_ok
    THEN [raised |-> TRUE, ret |-> Null, split |-> 1, embed |-> 0]
  ELSE IF embedder_up
    THEN [raised |-> FALSE, ret |-> [chunks |-> documents], split |-> 1, embed |-> 1]
    ELSE [raised |-> TRUE, ret |-> Null, split |-> 1, embed |-> 1]

(* ----------------------------- main.lifespan -------------------------- *)

\* No exception is caught in lifespan or in build_knowledge_bases: whatever
\* raises there, a print on a failing stdout included, ends startup.

\* Phase 1: the documents of the Google Drive folder (none when
\* GOOGLE_DRIVE_CV_FOLDER_ID is unset or load_documents returns []).
LoadPersonal ==
  /\ lifespan_pc = "load_personal"
  /\ \E n \in 0..MaxDocs : personal_documents' = [i \in 1..n |-> GDriveDoc]
  /\ lifespan_pc' = "load_projects"
  /\ UNCHANGED <<project_documents, build_failed, split_calls, embed_calls,
                 store_vars, request_vars, router_vars, dispatch_vars>>

\* Phase 1 when an exception leaves lifespan: a print raises, the constructor
\* of GoogleDriveLoader raises (credentials file missing), or a document
\* loader raises in the loop over the downloaded paths, after the documents
\* before it were added to the list.
LoadPersonalRaises ==
  /\ lifespan_pc = "load_personal"
  /\ \E n \in 0..MaxDocs : personal_documents' = [i \in 1..n |-> GDriveDoc]
  /\ lifespan_pc' = "aborted"
  /\ UNCHANGED <<project_documents, build_failed, split_calls,
                 embed_calls, store_vars, request_vars, router_vars, dispatch_vars>>

\* Phase 2: the repository documents, the "self" one going to the personal list.
LoadProjects ==
  /\ lifespan_pc = "load_projects"
  /\ \E github_docs \in RepoLists :
       /\ personal_documents' = personal_documents \o SelectSeq(github_docs, IsSelf)
       /\ project_documents' = SelectSeq(github_docs, IsNotSelf)
  /\ lifespan_pc' = "build_personal"
  /\ UNCHANGED <<build_failed, split_calls, embed_calls, store_vars, request_vars,
                 router_vars, dispatch_vars>>

\* Phase 2 when an exception leaves lifespan: the print of lifespan, the
\* print of load_repo_data before its try, or the print in its except clause
\* raises.  All of them precede the loop that sorts the documents into the
\* two lists.
LoadProjectsRaises ==
  /\ lifespan_pc = "load_projects"
  /\ lifespan_pc' = "aborted"
  /\ UNCHANGED <<personal_documents, project_documents, build_failed, split_calls,
                 embed_calls, store_vars, request_vars, router_vars, dispatch_vars>>

\* Phase 3 up to the first assignment of build_knowledge_bases.  The print of
\* lifespan or the first print of build_knowledge_bases may raise before
\* _create_vector_store is called.
BuildPersonal ==
  /\ lifespan_pc = "build_personal"
  /\ \E announce_ok, stdout_ok, embedder_up \in BOOLEAN :
       IF ~announce_ok
         THEN /\ lifespan_pc' = "aborted"
              /\ UNCHANGED <<split_calls, embed_calls, build_failed, personal_vector_store>>
         ELSE LET res == create_vector_store(personal_documents, stdout_ok, embedder_up) IN
              /\ split_calls' = [split_calls EXCEPT ![PERSONAL] = @ + res.split]
              /\ embed_calls' = [embed_calls EXCEPT ![PERSONAL] = @ + res.embed]
              /\ IF res.raised
                   THEN /\ build_failed' = PERSONAL
                        /\ lifespan_pc' = "aborted"
                        /\ UNCHANGED personal_vector_store
                   ELSE /\ personal_vector_store' = res.ret
                        /\ lifespan_pc' = "build_projects"
                        /\ UNCHANGED build_failed
  /\ UNCHANGED <<personal_documents, project_documents, projects_vector_store,
                 request_vars, router_vars, dispatch_vars>>

\* build_knowledge_bases from its second print to its return; lifespan then
\* yields.  The second print may raise before _create_vector_store is called,
\* and the last print may raise after both stores have been assigned.
BuildProjects ==
  /\ lifespan_pc = "build_projects"
  /\ \E announce_ok, stdout_ok, embedder_up, done_ok \in BOOLEAN :
       IF ~announce_ok
         THEN /\ lifespan_pc' = "aborted"
              /\ UNCHANGED <<split_calls, embed_calls, build_failed, projects_vector_store>>
         ELSE LET res == create_vector_store(project_documents, stdout_ok, embedder_up) IN
              /\ split_calls' = [split_calls EXCEPT ![PROJECT] = @ + res.split]
              /\ embed_calls' = [embed_calls EXCEPT ![PROJECT] = @ + res.embed]
              /\ IF res.raised
                   THEN /\ build_failed' = PROJECT
                        /\ lifespan_pc' = "aborted"
                        /\ UNCHANGED projects_vector_store
                   ELSE /\ projects_vector_store' = res.ret
                        /\ lifespan_pc' = IF done_ok THEN "serving" ELSE "aborted"
                        /\ UNCHANGED build_failed
  /\ UNCHANGED <<personal_documents, project_documents, personal_vector_store,
                 request_vars, router_vars, dispatch_vars>>

\* Mutant: requests are accepted while build_knowledge_bases is still running.
AcceptingRequestsDuringBuild == lifespan_pc \in {"build_projects", "serving"}

\* The application serves requests only after lifespan has reached its yield.
AcceptingRequests == lifespan_pc = "serving"

(* ----------------------- RAGService.get_retriever --------------------- *)

\* VectorStore.as_retriever(): a retriever bound to the store.
as_retriever(store) == [vectorstore |-> store]

\* Mutant: the final fallback returns the projects store.
get_retriever_fallback_projects(label, personal, projects) ==
  IF label = PERSONAL /\ personal # Null THEN as_retriever(personal)
  ELSE IF label = PROJECT /\ projects # Null THEN as_retriever(projects)
  ELSE IF projects # Null THEN as_retriever(projects)
  ELSE Null

\* Mutant: no fallback, a null requested store gives no retriever.
get_retriever_no_fallback(label, personal, projects) ==
  IF label = PERSONAL /\ personal # Null THEN as_retriever(personal)
  ELSE IF label = PROJECT /\ projects # Null THEN as_retriever(projects)
  ELSE Null

\* get_retriever(category) with the two stores of the service as arguments.
get_retriever(label, personal, projects) ==
  IF label = PERSONAL /\ personal # Null THEN as_retriever(personal)
  ELSE IF label = PROJECT /\ projects # Null THEN as_retriever(projects)
  ELSE IF personal # Null THEN as_retriever(personal)
  ELSE Null

\* get_retriever prints on its two label branches only: the fallback return
\* prints nothing.
get_retriever_prints(label, personal, projects) ==
  \/ label = PERSONAL /\ personal # Null
  \/ label = PROJECT /\ projects # Null

(* ------------------------ process_chat_message ------------------------ *)

\* Each request is a sequence of the steps below.  The steps of different
\* requests are interleaved freely, which includes every order in which the
\* event loop (or a deployment with several threads) can run the handlers.

\* The except clause of the endpoint, entered with the exception raised at
\* `step`: the exception is printed, then the apology is returned.  The print
\* is outside every try: when it raises (stdout has failed, or cannot encode
\* the text of the exception) the exception leaves process_chat_message and
\* the request ends without a ChatResponse.
Caught(r, step) ==
  /\ exc' = [exc EXCEPT ![r] = step]
  /\ \E handler_print_ok \in BOOLEAN :
       IF handler_print_ok
         THEN /\ answer' = [answer EXCEPT ![r] = APOLOGY_ANSWER]
              /\ pc' = [pc EXCEPT ![r] = "responded"]
         ELSE /\ pc' = [pc EXCEPT ![r] = "escaped"]
              /\ UNCHANGED answer

\* The request has arrived: question = request.message, then the question
\* is printed.  Both are inside the try: when print raises (stdout cannot
\* encode the question, or stdout has failed) the except clause is entered
\* before route_query is called.
Receive(r) ==
  /\ pc[r] = "idle"
  /\ AcceptingRequests
  /\ history' = [history EXCEPT ![r] = <<"Received">>]
  /\ \E stdout_ok \in BOOLEAN :
       IF stdout_ok
         THEN /\ pc' = [pc EXCEPT ![r] = "received"]
              /\ UNCHANGED <<answer, exc>>
         ELSE Caught(r, "print_question")
  /\ UNCHANGED <<category, classify_failed, retriever, relevant_docs,
                 startup_vars, store_vars, router_vars, dispatch_vars>>

\* Mutant: an exception of the classification call leaves route_query and is
\* caught by the endpoint.
RouteQueryPropagates(r) ==
  /\ pc[r] = "received"
  /\ \E outcome \in RequestOutcomes :
       IF outcome.kind # "content"
         THEN /\ classify_failed' = [classify_failed EXCEPT ![r] = TRUE]
              /\ Caught(r, "route_query")
              /\ UNCHANGED <<category, history>>
         ELSE /\ category' = [category EXCEPT ![r] = route_query(outcome)]
              /\ pc' = [pc EXCEPT ![r] = "classified"]
              /\ history' = [history EXCEPT ![r] = Append(@, "Classified")]
              /\ UNCHANGED <<classify_failed, exc, answer>>
  /\ UNCHANGED <<retriever, relevant_docs, startup_vars, store_vars, router_vars, dispatch_vars>>

\* Step 1: category = rag_service_instance.route_query(question).  route_query
\* prints nothing and catches every exception of the classification call.
RouteQuery(r) ==
  /\ pc[r] = "received"
  /\ \E outcome \in RequestOutcomes :
       /\ category' = [category EXCEPT ![r] = route_query(outcome)]
       /\ classify_failed' = [classify_failed EXCEPT ![r] = outcome.kind # "content"]
  /\ pc' = [pc EXCEPT ![r] = "classified"]
  /\ history' = [history EXCEPT ![r] = Append(@, "Classified")]
  /\ UNCHANGED <<retriever, relevant_docs, answer, exc, startup_vars, store_vars,
                 router_vars, dispatch_vars>>

\* Mutant: the fallback is remembered by overwriting the null projects store.
GetRetrieverCachesFallback(r) ==
  /\ pc[r] = "classified"
  /\ \E stdout_ok \in BOOLEAN :
       IF stdout_ok \/ ~get_retriever_prints(category[r], personal_vector_store,
                                             projects_vector_store)
         THEN /\ retriever' = [retriever EXCEPT ![r] =
                   get_retriever(category[r], personal_vector_store, projects_vector_store)]
              /\ projects_vector_store' =
                   IF projects_vector_store = Null THEN personal_vector_store
                   ELSE projects_vector_store
              /\ pc' = [pc EXCEPT ![r] = "selected"]
              /\ history' = [history EXCEPT ![r] = Append(@, "IndexSelected")]
              /\ UNCHANGED <<answer, exc>>
         ELSE /\ Caught(r, "get_retriever")
              /\ UNCHANGED <<retriever, history, projects_vector_store>>
  /\ UNCHANGED <<category, classify_failed, relevant_docs, startup_vars,
                 personal_vector_store, router_vars, dispatch_vars>>

\* Step 2: retriever = rag_service_instance.get_retriever(category).  On the
\* two branches that print, the print may raise: the call is inside the
\* endpoint's try, so the except clause is entered with no retriever assigned.
GetRetriever(r) ==
  /\ pc[r] = "classified"
  /\ \E stdout_ok \in BOOLEAN :
       IF stdout_ok \/ ~get_retriever_prints(category[r], personal_vector_store,
                                             projects_vector_store)
         THEN /\ retriever' = [retriever EXCEPT ![r] =
                   get_retriever(category[r], personal_vector_store, projects_vector_store)]
              /\ pc' = [pc EXCEPT ![r] = "selected"]
              /\ history' = [history EXCEPT ![r] = Append(@, "IndexSelected")]
              /\ UNCHANGED <<answer, exc>>
         ELSE /\ Caught(r, "get_retriever")
              /\ UNCHANGED <<retriever, history>>
  /\ UNCHANGED <<category, classify_failed, relevant_docs, startup_vars,
                 store_vars, router_vars, dispatch_vars>>

\* Mutant: the `if retriever is None` check is missing, so None.invoke raises
\* and the endpoint's except clause is entered.
ReturnNoKBUnchecked(r) ==
  /\ pc[r] = "selected"
  /\ retriever[r] = Null
  /\ Caught(r, "retrieve")
  /\ UNCHANGED <<category, classify_failed, retriever, relevant_docs, history,
                 startup_vars, store_vars, router_vars, dispatch_vars>>

\* `if retriever is None: return ChatResponse(answer="Knowledge base is not
\* available.")`.  Nothing is printed on this path.
ReturnNoKB(r) ==
  /\ pc[r] = "selected"
  /\ retriever[r] = Null
  /\ answer' = [answer EXCEPT ![r] = NO_KB_ANSWER]
  /\ pc' = [pc EXCEPT ![r] = "responded"]
  /\ UNCHANGED <<category, classify_failed, retriever, relevant_docs, exc, history,
                 startup_vars, store_vars, router_vars, dispatch_vars>>

\* Step 3: relevant_docs = retriever.invoke(question).  The question is
\* embedded first; when the embedding model cannot be reached the call raises
\* and the except clause is entered.  The modelled stores hold no more chunks
\* than the retriever's k, so every chunk is returned.  The context joined
\* from the chunks is then printed; when that print raises the except clause
\* is entered too.
Retrieve(r) ==
  /\ pc[r] = "selected"
  /\ retriever[r] # Null
  /\ \E embedder_up \in BOOLEAN :
       IF embedder_up
         THEN /\ relevant_docs' = [relevant_docs EXCEPT ![r] = retriever[r].vectorstore.chunks]
              /\ history' = [history EXCEPT ![r] = Append(@, "Retrieved")]
              /\ \E stdout_ok \in BOOLEAN :
                   IF stdout_ok
                     THEN /\ pc' = [pc EXCEPT ![r] = "retrieved"]
                          /\ UNCHANGED <<answer, exc>>
                     ELSE Caught(r, "print_context")
         ELSE /\ Caught(r, "retrieve")
              /\ UNCHANGED <<relevant_docs, history>>
  /\ UNCHANGED <<category, classify_failed, retriever, startup_vars, store_vars,
                 router_vars, dispatch_vars>>

\* Mutant: the answer is generated right after the retriever is selected.
GenerateBeforeRetrieval(r) ==
  /\ pc[r] \in {"selected", "retrieved"}
  /\ retriever[r] # Null
  /\ answer' = [answer EXCEPT ![r] = MODEL_ANSWER]
  /\ history' = [history EXCEPT ![r] = Append(@, "Answered")]
  /\ pc' = [pc EXCEPT ![r] = "responded"]
  /\ UNCHANGED <<exc, category, classify_failed, retriever, relevant_docs,
                 startup_vars, store_vars, router_vars, dispatch_vars>>

\* Step 4: the answer-generation call ollama.chat and the ChatResponse built
\* from it; when the call raises or its response cannot be read the except
\* clause is entered.
Generate(r) ==
  /\ pc[r] = "retrieved"
  /\ \E model_ok \in BOOLEAN :
       IF model_ok
         THEN /\ answer' = [answer EXCEPT ![r] = MODEL_ANSWER]
              /\ history' = [history EXCEPT ![r] = Append(@, "Answered")]
              /\ pc' = [pc EXCEPT ![r] = "responded"]
              /\ UNCHANGED exc
         ELSE /\ Caught(r, "generate")
              /\ UNCHANGED history
  /\ UNCHANGED <<category, classify_failed, retriever, relevant_docs, startup_vars,
                 store_vars, router_vars, dispatch_vars>>

(* --------------------------- specification ---------------------------- *)

\* The state after the module-level RAGService() and before lifespan runs.
Init ==
  /\ lifespan_pc = "load_personal"
  /\ personal_documents = << >>
  /\ project_documents = << >>
  /\ personal_vector_store = Null
  /\ projects_vector_store = Null
  /\ build_failed = "none"
  /\ split_calls = [d \in DomainLabels |-> 0]
  /\ embed_calls = [d \in DomainLabels |-> 0]
  /\ pc = [r \in Requests |-> "idle"]
  /\ category = [r \in Requests |-> "unset"]
  /\ classify_failed = [r \in Requests |-> FALSE]
  /\ retriever = [r \in Requests |-> Null]
  /\ relevant_docs = [r \in Requests |-> << >>]
  /\ answer = [r \in Requests |-> "none"]
  /\ exc = [r \in Requests |-> "none"]
  /\ history = [r \in Requests |-> << >>]
  /\ router_in = Unreachable
  /\ router_out = "none"
  /\ dispatch_label = "unset"
  /\ dispatch_out = Pending

Next ==
  \/ LoadPersonal
  \/ LoadPersonalRaises
  \/ LoadProjects
  \/ LoadProjectsRaises
  \/ BuildPersonal
  \/ BuildProjects
  \/ \E r \in Requests : Receive(r)
  \/ \E r \in Requests : RouteQuery(r)
  \/ \E r \in Requests : GetRetriever(r)
  \/ \E r \in Requests : ReturnNoKB(r)
  \/ \E r \in Requests : Retrieve(r)
  \/ \E r \in Requests : Generate(r)

Spec == Init /\ [][Next]_vars

(* ------------------- specification of route_query --------------------- *)

RouterInit ==
  /\ router_in \in LLMOutcomes
  /\ router_out = "none"
  /\ lifespan_pc = "load_personal"
  /\ personal_documents = << >>
  /\ project_documents = << >>
  /\ personal_vector_store = Null
  /\ projects_vector_store = Null
  /\ build_failed = "none"
  /\ split_calls = [d \in DomainLabels |-> 0]
  /\ embed_calls = [d \in DomainLabels |-> 0]
  /\ pc = [r \in Requests |-> "idle"]
  /\ category = [r \in Requests |-> "unset"]
  /\ classify_failed = [r \in Requests |-> FALSE]
  /\ retriever = [r \in Requests |-> Null]
  /\ relevant_docs = [r \in Requests |-> << >>]
  /\ answer = [r \in Requests |-> "none"]
  /\ exc = [r \in Requests |-> "none"]
  /\ history = [r \in Requests |-> << >>]
  /\ dispatch_label = "unset"
  /\ dispatch_out = Pending

\* route_query is called on the outcome of its language-model call.
RouterCall ==
  /\ router_out = "none"
  /\ router_out' = route_query(router_in)
  /\ UNCHANGED <<router_in, startup_vars, store_vars, request_vars, dispatch_vars>>

RouterNext == RouterCall

RouterSpec == RouterInit /\ [][RouterNext]_vars

(* ------------------ specification of get_retriever ------------------- *)

\* The values the argument category is drawn from: the two labels and two
\* strings outside them.
DispatchLabels == DomainLabels \cup {"unset", "general_info"}

\* The document lists lifespan can hand to build_knowledge_bases.
PersonalLists ==
  { [i \in 1..n |-> GDriveDoc] \o SelectSeq(g, IsSelf) : n \in 0..MaxDocs, g \in RepoLists }

ProjectLists == { SelectSeq(g, IsNotSelf) : g \in RepoLists }

\* The value build_knowledge_bases leaves in a store attribute when it returns.
BuiltStore(documents) == create_vector_store(documents, TRUE, TRUE).ret

\* The states in which lifespan has reached its yield and no request has
\* arrived yet, with a label for the call.
DispatchInit ==
  /\ dispatch_label \in DispatchLabels
  /\ dispatch_out = Pending
  /\ personal_documents \in PersonalLists
  /\ project_documents \in ProjectLists
  /\ personal_vector_store = BuiltStore(personal_documents)
  /\ projects_vector_store = BuiltStore(project_documents)
  /\ lifespan_pc = "serving"
  /\ build_failed = "none"
  /\ split_calls = [d \in DomainLabels |->
                     IF d = PERSONAL THEN create_vector_store(personal_documents, TRUE, TRUE).split
                     ELSE create_vector_store(project_documents, TRUE, TRUE).split]
  /\ embed_calls = [d \in DomainLabels |->
                     IF d = PERSONAL THEN create_vector_store(personal_documents, TRUE, TRUE).embed
                     ELSE create_vector_store(project_documents, TRUE, TRUE).embed]
  /\ pc = [r \in Requests |-> "idle"]
  /\ category = [r \in Requests |-> "unset"]
  /\ classify_failed = [r \in Requests |-> FALSE]
  /\ retriever = [r \in Requests |-> Null]
  /\ relevant_docs = [r \in Requests |-> << >>]
  /\ answer = [r \in Requests |-> "none"]
  /\ exc = [r \in Requests |-> "none"]
  /\ history = [r \in Requests |-> << >>]
  /\ router_in = Unreachable
  /\ router_out = "none"

\* The outcome of a call of get_retriever that raised.
Raised == [raised |-> TRUE]

\* get_retriever is called with the label on the service's two stores; on a
\* branch that prints, the print may raise.
DispatchCall ==
  /\ dispatch_out = Pending
  /\ \E stdout_ok \in BOOLEAN :
       dispatch_out' =
         IF stdout_ok \/ ~get_retriever_prints(dispatch_label, personal_vector_store,
                                               projects_vector_store)
           THEN get_retriever(dispatch_label, personal_vector_store, projects_vector_store)
           ELSE Raised
  /\ UNCHANGED <<dispatch_label, startup_vars, store_vars, request_vars, router_vars>>

DispatchNext == DispatchCall

DispatchSpec == DispatchInit /\ [][DispatchNext]_vars

(* ------------------------------ helpers ------------------------------- *)

\* Request r has passed the named stage.
Passed(r, stage) == \E i \in DOMAIN history[r] : history[r][i] = stage

\* The document list and the store of a domain.
DocsOf(d) == IF d = PERSONAL THEN personal_documents ELSE project_documents

StoreOf(d) == IF d = PERSONAL THEN personal_vector_store ELSE projects_vector_store

OtherDomain(d) == IF d = PERSONAL THEN PROJECT ELSE PERSONAL

\* The five stages of a query, in order.
FullPath == <<"Received", "Classified", "IndexSelected", "Retrieved", "Answered">>

IsPrefix(s, t) == Len(s) <= Len(t) /\ SubSeq(t, 1, Len(s)) = s

(* ------------------------------- claims ------------------------------- *)

\* C1: whenever the projects store is null and the personal store is not, a
\* request classified project_info is given a retriever over the personal
\* store (not null, not the projects store), and what it retrieves are the
\* chunks of the personal store.
C1_FallbackToPersonal ==
  \A r \in Requests :
    ( /\ Passed(r, "IndexSelected")
      /\ category[r] = PROJECT
      /\ projects_vector_store = Null
      /\ personal_vector_store # Null )
    => /\ retriever[r] # Null
       /\ retriever[r].vectorstore = personal_vector_store
       /\ retriever[r].vectorstore # projects_vector_store
       /\ Passed(r, "Retrieved") => relevant_docs[r] = personal_vector_store.chunks

C1_Witness ==
  \E r \in Requests :
    /\ Passed(r, "Retrieved")
    /\ category[r] = PROJECT
    /\ projects_vector_store = Null
    /\ personal_vector_store # Null
    /\ relevant_docs[r] # << >>

\* C2: when both stores are null, a request of either label gets no
\* retriever, retrieves no chunk, raises no exception, and ends with the
\* answer "Knowledge base is not available.".
C2_EmptyCase ==
  \A r \in Requests :
    ( /\ Passed(r, "IndexSelected")
      /\ personal_vector_store = Null
      /\ projects_vector_store = Null )
    => /\ retriever[r] = Null
       /\ relevant_docs[r] = << >>
       /\ exc[r] = "none"
       /\ pc[r] = "responded" => answer[r] = NO_KB_ANSWER

C2_Witness ==
  \E r \in Requests :
    /\ pc[r] = "responded"
    /\ category[r] = PROJECT
    /\ personal_vector_store = Null
    /\ projects_vector_store = Null
    /\ answer[r] = NO_KB_ANSWER

\* C3: a failure while building one domain's store leaves that store null,
\* does not abort startup, and the other domain's store is still built from
\* its documents.
C3_BuildFailureIsolated ==
  build_failed # "none" =>
    /\ lifespan_pc # "aborted"
    /\ StoreOf(build_failed) = Null
    /\ ( lifespan_pc = "serving" /\ DocsOf(OtherDomain(build_failed)) # << >> )
         => StoreOf(OtherDomain(build_failed)) # Null

\* C4: an empty document list gives a null store for its domain without an
\* exception and without a chunker or embedder call, and once startup has
\* completed the other domain's store holds the chunks of its own non-empty
\* list.
C4_EmptyCorpus ==
  \A d \in DomainLabels :
    ( DocsOf(d) = << >> /\ lifespan_pc \notin {"load_personal", "load_projects"} )
    => /\ StoreOf(d) = Null
       /\ split_calls[d] = 0
       /\ embed_calls[d] = 0
       /\ build_failed # d
       /\ ( lifespan_pc = "serving" /\ DocsOf(OtherDomain(d)) # << >> )
            => /\ StoreOf(OtherDomain(d)) # Null
               /\ StoreOf(OtherDomain(d)).chunks = DocsOf(OtherDomain(d))

C4_Witness ==
  /\ lifespan_pc = "serving"
  /\ personal_documents = << >>
  /\ project_documents # << >>
  /\ personal_vector_store = Null
  /\ projects_vector_store # Null

\* C5: for every response text, route_query returns project_info exactly when
\* the lower-cased text contains "project_info" and does not contain
\* "personal_info"; every other text gives personal_info.
C5_RouterPolicy ==
  ( router_out # "none" /\ router_in.kind = "content" ) =>
    LET low == Lower(router_in.text) IN
    /\ router_out = PROJECT
         <=> ( Contains(low, ProjectInfoText) /\ ~Contains(low, PersonalInfoText) )
    /\ router_out # PROJECT => router_out = PERSONAL

C5_Witness ==
  /\ router_in.kind = "content"
  /\ Contains(Lower(router_in.text), ProjectInfoText)
  /\ Contains(Lower(router_in.text), PersonalInfoText)
  /\ router_out = PERSONAL

\* C6: when the language-model call fails or its response cannot be read,
\* route_query returns personal_info; whatever the outcome of the call, the
\* value returned is one of the two labels.
C6_ClassificationFailure ==
  router_out # "none" =>
    /\ router_out \in DomainLabels
    /\ router_in.kind # "content" => router_out = PERSONAL

C6_Witness ==
  /\ router_in \in {Unreachable, Unreadable}
  /\ router_out = PERSONAL

\* C7: a request is handled only when startup has completed, that is when
\* both stores have their final value: null for an empty document list and
\* the store of the list's chunks otherwise.
C7_BuildBeforeServe ==
  \A r \in Requests :
    pc[r] # "idle" =>
      /\ lifespan_pc = "serving"
      /\ \A d \in DomainLabels :
           StoreOf(d) = IF DocsOf(d) = << >> THEN Null ELSE [chunks |-> DocsOf(d)]

C7_Witness ==
  \E r \in Requests :
    /\ pc[r] = "classified"
    /\ lifespan_pc = "serving"
    /\ personal_vector_store # Null
    /\ projects_vector_store # Null

\* C8: the stages a request has passed are always an initial part of
\* Received, Classified, Index Selected, Retrieved, Answered, so they are
\* passed in that order and none is skipped; the retriever is selected only
\* with a label assigned, retrieval happens only on a selected non-null
\* retriever, answer generation starts only after retrieval has returned; a
\* request that ended before the last stage is one with no retriever selected
\* or one in which a step inside the try raised (the print of the question,
\* the print of get_retriever, retrieval, the print of the context, or
\* answer generation), and a step that raised left the stage it belongs to
\* unpassed.
C8_StagesInOrder ==
  \A r \in Requests :
    /\ IsPrefix(history[r], FullPath)
    /\ Passed(r, "IndexSelected") => category[r] \in DomainLabels
    /\ Passed(r, "Retrieved") => ( retriever[r] # Null /\ Passed(r, "IndexSelected") )
    /\ ( Passed(r, "Answered") \/ exc[r] = "generate" \/ answer[r] = MODEL_ANSWER )
         => Passed(r, "Retrieved")
    /\ ( pc[r] \in {"responded", "escaped"} /\ history[r] # FullPath )
         => \/ ( retriever[r] = Null /\ Passed(r, "IndexSelected") )
            \/ exc[r] \in {"print_question", "get_retriever", "retrieve",
                            "print_context", "generate"}
    /\ exc[r] = "print_question" => history[r] = <<"Received">>
    /\ exc[r] = "get_retriever" => history[r] = <<"Received", "Classified">>
    /\ exc[r] = "retrieve" => history[r] = <<"Received", "Classified", "IndexSelected">>

C8_Witness ==
  \E r \in Requests :
    /\ pc[r] = "responded"
    /\ history[r] = FullPath
    /\ answer[r] = MODEL_ANSWER
    /\ \E q \in Requests :
         /\ pc[q] = "responded"
         /\ history[q] = <<"Received", "Classified", "IndexSelected">>

\* C9: of the four failure paths of the core only the retrieval call (query
\* embedding) on a selected retriever raises into the endpoint; every other
\* exception the endpoint catches is raised by a print (of the endpoint, or
\* of get_retriever on a branch where the requested store is not null) or by
\* the external answer-generation call.  A failed classification gives the
\* label personal_info, a null requested store gives the personal store, and
\* two null stores give the "no knowledge base" answer, each without an
\* exception.
C9_OnlyEmbedderPropagates ==
  \A r \in Requests :
    /\ exc[r] \in {"none", "print_question", "get_retriever", "retrieve",
                    "print_context", "generate"}
    /\ exc[r] = "print_question" => ~Passed(r, "Classified")
    /\ exc[r] = "get_retriever"
         => ( StoreOf(category[r]) # Null /\ ~Passed(r, "IndexSelected") )
    /\ exc[r] = "retrieve" => ( retriever[r] # Null /\ ~Passed(r, "Retrieved") )
    /\ exc[r] \in {"print_context", "generate"}
         => ( retriever[r] # Null /\ Passed(r, "Retrieved") )
    /\ classify_failed[r] => ( Passed(r, "Classified") /\ category[r] = PERSONAL )
    /\ ( Passed(r, "IndexSelected") /\ StoreOf(category[r]) = Null )
         => /\ retriever[r] = IF personal_vector_store = Null THEN Null
                              ELSE as_retriever(personal_vector_store)
            /\ retriever[r] = Null => exc[r] = "none"
            /\ ( retriever[r] = Null /\ pc[r] = "responded" ) => answer[r] = NO_KB_ANSWER

C9_Witness ==
  \E r \in Requests :
    /\ classify_failed[r]
    /\ exc[r] = "retrieve"
    /\ answer[r] = APOLOGY_ANSWER
    /\ \E q \in Requests :
         /\ category[q] = PROJECT
         /\ projects_vector_store = Null
         /\ retriever[q] = as_retriever(personal_vector_store)
         /\ exc[q] = "none"

\* C10: once startup has completed no step changes either store.
C10_StoresReadOnly == [][AcceptingRequests => UNCHANGED store_vars]_vars

C10_Witness ==
  \E r1, r2 \in Requests :
    /\ r1 # r2
    /\ pc[r1] = "retrieved"
    /\ pc[r2] = "classified"
    /\ personal_vector_store # Null
    /\ projects_vector_store = Null

\* C12: a call of get_retriever that returns, returns None exactly when the personal store is null
\* and either the label is not project_info or the projects store is null;
\* the retriever it returns is over the projects store only for the label
\* project_info, and over the personal store in every other case.
C12_OneDirectionalFallback ==
  dispatch_out # Pending =>
    /\ dispatch_out = Null
         <=> /\ personal_vector_store = Null
             /\ ( dispatch_label # PROJECT \/ projects_vector_store = Null )
    /\ dispatch_out \notin {Null, Raised} =>
         /\ dispatch_out.vectorstore \in {personal_vector_store, projects_vector_store}
         /\ dispatch_out.vectorstore # Null
         /\ dispatch_out.vectorstore = projects_vector_store => dispatch_label = PROJECT

C12_Witness ==
  /\ dispatch_label \in {PERSONAL, "general_info"}
  /\ personal_vector_store = Null
  /\ projects_vector_store # Null
  /\ dispatch_out = Null

\* C13: no request leaves process_chat_message with an exception, and a
\* request that has ended has exactly one of the three answers: "Knowledge
\* base is not available." exactly when no retriever was selected, the
\* apology exactly when the retrieval call or the answer-generation call
\* raised, and the model's answer otherwise.
C13_AsStated ==
  \A r \in Requests :
    /\ pc[r] # "escaped"
    /\ pc[r] = "responded" =>
         /\ answer[r] \in {NO_KB_ANSWER, APOLOGY_ANSWER, MODEL_ANSWER}
         /\ answer[r] = NO_KB_ANSWER <=> retriever[r] = Null
         /\ answer[r] = APOLOGY_ANSWER <=> exc[r] \in {"retrieve", "generate"}
         /\ answer[r] = MODEL_ANSWER <=> ( retriever[r] # Null /\ exc[r] = "none" )

====
